---- MODULE Spec2Model ----
(***************************************************************************)
(* A model of the utm crate (src/src/lib.rs): the zone resolver, the       *)
(* forward projector and the inverse projector, and client sequences       *)
(* that chain them.                                                        *)
(*                                                                         *)
(* Numbers.  An f64 is a finite number on a grid (the data model of the    *)
(* library is finite coordinates; NaN and the infinities are not given):   *)
(* degrees are counted in units of 1/Scale degree, metres in whole metres, *)
(* radians and the dimensionless terms of the projection series in units   *)
(* of 1/FP.  Arithmetic on the grid is exact; the rounding of f64 below    *)
(* the grid's resolution is not represented.                               *)
(* A char is a one-letter string, ordered by its code point.               *)
(***************************************************************************)
EXTENDS Integers, Sequences, FiniteSets

(* ---------------------------------------------------------------- bounds *)

\* Grid points per degree for latitudes and longitudes.
Scale == 2

\* Largest latitude (degrees) given to the zone resolver.
MaxLatDeg == 90

\* Largest grid longitude (degrees) given to the zone resolver.
MaxLonDeg == 180

\* A longitude (degrees) far outside the grid, given with either sign.
FarLonDeg == 1500

\* The projection series are computed in units of 1/FP.
FP == 10000

(* ------------------------------------------------------------------- f64 *)

\* a degree literal of the source, on the grid
Deg(d) == d * Scale

\* float as u8: saturating
AsU8(n) == IF n < 0 THEN 0 ELSE IF n > 255 THEN 255 ELSE n

(* ------------------------------------------------------------------ char *)

Upper ==
  << "A", "B", "C", "D", "E", "F", "G", "H", "I", "J", "K", "L", "M",
     "N", "O", "P", "Q", "R", "S", "T", "U", "V", "W", "X", "Y", "Z" >>

Lower ==
  << "a", "b", "c", "d", "e", "f", "g", "h", "i", "j", "k", "l", "m",
     "n", "o", "p", "q", "r", "s", "t", "u", "v", "w", "x", "y", "z" >>

Chars == { Upper[i] : i \in 1..26 } \cup { Lower[i] : i \in 1..26 }

\* the code point of a letter: 'A' is 65, 'a' is 97
Ord(c) ==
  IF \E i \in 1..26 : Upper[i] = c
  THEN 64 + (CHOOSE i \in 1..26 : Upper[i] = c)
  ELSE 96 + (CHOOSE i \in 1..26 : Lower[i] = c)

CharLt(c, d) == Ord(c) < Ord(d)

CharGt(c, d) == Ord(c) > Ord(d)

CharGe(c, d) == Ord(c) >= Ord(d)

(* --------------------------------------------------------- zone resolver *)

ZONE_LETTERS ==
  << "C", "D", "E", "F", "G", "H", "J", "K", "L", "M", "N",
     "P", "Q", "R", "S", "T", "U", "V", "W", "X", "X" >>

\* The lookup in a table of the 20 distinct letters, 'X' once.
NthUnwrap_Short(i) ==
  IF i + 1 \in 1..20 THEN ZONE_LETTERS[i + 1] ELSE "panic"

\* ZONE_LETTERS.char_indices().nth(i).unwrap()
NthUnwrap(i) ==
  IF i + 1 \in DOMAIN ZONE_LETTERS THEN ZONE_LETTERS[i + 1] ELSE "panic"

\* Option<char>: "None", or the letter itself for Some(letter); "panic" when
\* the unwrap of the table lookup fails.
lat_to_zone_letter(lat) ==
  IF Deg(-80) <= lat /\ lat <= Deg(84)
  THEN NthUnwrap((lat + Deg(80)) \div Deg(8))
  ELSE "None"

\* The general formula counting zones from 0.
GeneralZone_FromZero(lon) == AsU8((lon + Deg(180)) \div Deg(6))

\* (((longitude + 180.) / 6.).floor() + 1.) as u8
GeneralZone(lon) ==
  AsU8(((lon + Deg(180)) \div Deg(6)) + 1)

lat_lon_to_zone_number(lat, lon) ==
  IF Deg(56) <= lat /\ lat < Deg(64) /\ Deg(3) <= lon /\ lon < Deg(12)
  THEN 32
  ELSE IF Deg(72) <= lat /\ lat <= Deg(84) /\ lon >= Deg(0)
       THEN IF lon < Deg(9) THEN 31
            ELSE IF lon < Deg(21) THEN 33
            ELSE IF lon < Deg(33) THEN 35
            ELSE IF lon < Deg(42) THEN 37
            ELSE GeneralZone(lon)
       ELSE GeneralZone(lon)

(* ------------------------------------------------ fixed-point arithmetic *)

Abs(n) == IF n < 0 THEN -n ELSE n

Sgn(n) == IF n < 0 THEN -1 ELSE 1

\* the value of a singleton set; the operators below bind their arguments in
\* one, so that each is evaluated once
Val(S) == CHOOSE v \in S : TRUE

\* n / d for d > 0, rounded to the nearest
RDiv(n, d) == Val({ Sgn(x) * ((2 * Abs(x) + d) \div (2 * d)) : x \in {n} })

\* a * b of two numbers in units of 1/FP, by halves so that no product
\* leaves the 32 bits of TLC's integers
FMul(a, b) ==
  Val({ LET xh == Abs(x) \div FP
            xl == Abs(x) % FP
            yh == Abs(y) \div FP
            yl == Abs(y) % FP
        IN  Sgn(x) * Sgn(y)
              * (xh * yh * FP + xh * yl + xl * yh + (xl * yl + FP \div 2) \div FP)
        : x \in {a}, y \in {b} })

\* a / b of two numbers in units of 1/FP, b # 0
FDiv(a, b) ==
  Val({ Sgn(x) * Sgn(y) * ((2 * Abs(x) * FP + Abs(y)) \div (2 * Abs(y)))
        : x \in {a}, y \in {b} })

RECURSIVE SqrtIter(_, _)
\* Newton's iteration for the integer square root of n, downwards from g
SqrtIter(n, g) ==
  Val({ IF h >= g THEN g ELSE SqrtIter(n, h) : h \in {(g + n \div g) \div 2} })

\* sqrt of a number in units of 1/FP, 0 <= a
Sqrt(a) == Val({ IF x = 0 THEN 0 ELSE SqrtIter(x * FP, x * FP) : x \in {a} })

\* std::f64::consts::PI, as 355/113
PI == RDiv(355 * FP, 113)

\* x - x^3/6 + x^5/120 - x^7/5040 + x^9/362880, from x and x^2
SinTerms(x, x2) ==
  Val({ Val({ Val({ Val({
    x - RDiv(x3, 6) + RDiv(x5, 120) - RDiv(x7, 5040) + RDiv(x9, 362880)
    : x9 \in {FMul(x7, x2)} }) : x7 \in {FMul(x5, x2)} })
    : x5 \in {FMul(x3, x2)} }) : x3 \in {FMul(x2, x)} })

\* the sine series on [-PI/2, PI/2]
SinSeries(x) == Val({ SinTerms(v, FMul(v, v)) : v \in {x} })

\* 1 - x^2/2 + x^4/24 - x^6/720 + x^8/40320 - x^10/3628800, from x^2
CosTerms(x2) ==
  Val({ Val({ Val({ Val({
    FP - RDiv(x2, 2) + RDiv(x4, 24) - RDiv(x6, 720) + RDiv(x8, 40320)
      - RDiv(x10, 3628800)
    : x10 \in {FMul(x8, x2)} }) : x8 \in {FMul(x6, x2)} })
    : x6 \in {FMul(x4, x2)} }) : x4 \in {FMul(x2, x2)} })

\* the cosine series on [-PI/2, PI/2]
CosSeries(x) == Val({ CosTerms(v) : v \in {FMul(x, x)} })

\* x reduced to [-PI, PI)
Reduce(x) == ((x + PI) % (2 * PI)) - PI

\* f64::sin
Sin(x) ==
  Val({ IF 2 * r > PI THEN SinSeries(PI - r)
        ELSE IF 2 * r < -PI THEN SinSeries(-PI - r)
        ELSE SinSeries(r)
        : r \in {Reduce(x)} })

\* f64::cos
Cos(x) ==
  Val({ IF 2 * r > PI THEN -CosSeries(PI - r) ELSE CosSeries(r)
        : r \in {Abs(Reduce(x))} })

\* f64::tan
Tan(x) == FDiv(Sin(x), Cos(x))

(* ------------------------------------------------------ forward projector *)

\* WGS84.a, metres
WGS84_a == 6378137

\* WGS84.f = 1.0 / 298.257222101
WGS84_f == RDiv(1000 * FP, 298257)

\* 0.9996
K0 == RDiv(9996 * FP, 10000)

\* a length in units of WGS84.a / FP, in metres
Metres(v) == FMul(v, WGS84_a)

\* let long_origin = zone as f64 * 6.0 - 183.0, in whole degrees
LongOrigin(zone) == zone * 6 - 183

\* let e2 = 2.0 * ellipsoid.f - ellipsoid.f * ellipsoid.f
E2 == 2 * WGS84_f - FMul(WGS84_f, WGS84_f)

\* let ep2 = e2 / (1.0 - e2)
Ep2 == FDiv(E2, FP - E2)

Term1 ==
  FP - RDiv(E2, 4) - RDiv(3 * FMul(E2, E2), 64)
    - RDiv(5 * FMul(FMul(E2, E2), E2), 256)

Term2 ==
  RDiv(3 * E2, 8) + RDiv(3 * FMul(E2, E2), 32)
    + RDiv(45 * FMul(FMul(E2, E2), E2), 1024)

Term3 ==
  RDiv(15 * FMul(E2, E2), 256) + RDiv(45 * FMul(FMul(E2, E2), E2), 1024)

Term4 == RDiv(35 * FMul(FMul(E2, E2), E2), 3072)

RECURSIVE FPow(_, _)
\* a * a * ... * a, k factors, k >= 1
FPow(a, k) == IF k = 1 THEN a ELSE FMul(FPow(a, k - 1), a)

\* n, m, x and y below are lengths in units of WGS84.a, turned to metres in
\* the last step.
\* let n = ellipsoid.a / (1.0 - e2 * latitude.sin() * latitude.sin()).sqrt()
N(lat) == FDiv(FP, Sqrt(FP - FMul(FMul(E2, Sin(lat)), Sin(lat))))

\* let t = latitude.tan() * latitude.tan()
T(lat) == FMul(Tan(lat), Tan(lat))

\* let c = ep2 * latitude.cos() * latitude.cos()
C(lat) == FMul(FMul(Ep2, Cos(lat)), Cos(lat))

\* let a = latitude.cos() * (longitude - (long_origin * PI / 180.0))
A(lat, lon, zone) == FMul(Cos(lat), lon - RDiv(LongOrigin(zone) * PI, 180))

M(lat) ==
  FMul(Term1, lat) - FMul(Term2, Sin(2 * lat)) + FMul(Term3, Sin(4 * lat))
    - FMul(Term4, Sin(6 * lat))

X1(t, c, a) == RDiv(FMul(FP - t + c, FPow(a, 3)), 6)

X2(t, c, a) ==
  RDiv(FMul(5 * FP - 18 * t + FMul(t, t) + 72 * c - 58 * Ep2, FPow(a, 5)), 120)

Y1(t, c, a) == RDiv(FMul(5 * FP - t + 9 * c + 4 * FMul(c, c), FPow(a, 4)), 24)

Y2(t, c, a) ==
  RDiv(FMul(61 * FP - 58 * t + FMul(t, t) + 600 * c - 330 * Ep2, FPow(a, 6)),
       720)

Y3(t, c, a) == RDiv(FMul(a, a), 2) + Y1(t, c, a) + Y2(t, c, a)

\* x, y, northing and easting from the terms of the point
UtmOf(n, t, c, a, m, tan_lat) ==
  Val({ [northing |-> Metres(y), easting |-> Metres(x) + 500000]
        : x \in {FMul(FMul(K0, n), a + X1(t, c, a) + X2(t, c, a))},
          y \in {FMul(K0, m + FMul(FMul(n, tan_lat), Y3(t, c, a)))} })

\* the terms of the point
UtmAt(lat, lon, zone) ==
  Val({ UtmOf(n, t, c, a, m, tan_lat)
        : n \in {N(lat)}, t \in {T(lat)}, c \in {C(lat)},
          a \in {A(lat, lon, zone)}, m \in {M(lat)}, tan_lat \in {Tan(lat)} })

\* (northing, easting) of radians_to_utm_wgs84, in metres, for a latitude and
\* a longitude in units of 1/FP radian.  The third component of the source,
\* the meridian convergence, is a function of these two and is not carried.
radians_to_utm_wgs84(lat, lon, zone) ==
  Val({ UtmAt(lt, ln, zone) : lt \in {lat}, ln \in {lon} })

\* latitude * PI / 180.0, from the grid of degrees to units of 1/FP radian
DegToRad(d) == RDiv(d * PI, 180 * Scale)

to_utm_wgs84(lat, lon, zone) ==
  radians_to_utm_wgs84(DegToRad(lat), DegToRad(lon), zone)

to_utm_wgs84_no_zone(lat, lon) ==
  to_utm_wgs84(lat, lon, lat_lon_to_zone_number(lat, lon))

(* ------------------------------------------------------ inverse projector *)

NoResult ==
  [tag |-> "unset", err |-> "", x |-> 0, y |-> 0, northern |-> FALSE,
   meridian |-> 0]

Err(e) == [NoResult EXCEPT !.tag = "Err", !.err = e]

\* Ok((latitude, longitude)): the pair is the value of the inverse series at
\* (x, y), turned to degrees, plus the zone's central meridian; the record
\* keeps x, y, the hemisphere and the meridian, which determine it.
Ok(x, y, northern, meridian) ==
  [tag |-> "Ok", err |-> "", x |-> x, y |-> y, northern |-> northern,
   meridian |-> meridian]

\* The easting check with its upper bound accepted.
EastingOutOfRange_Inclusive(easting) ==
  easting < 100000 \/ 1000000 < easting

EastingOutOfRange(easting) ==
  easting < 100000 \/ 1000000 <= easting

NorthingOutOfRange(northing) ==
  northing < 0 \/ northing > 10000000

ZoneNumOutOfRange(zone_num) == zone_num < 1 \/ zone_num > 60

ZoneLetterOutOfRange(zone_letter) ==
  CharLt(zone_letter, "C") \/ CharGt(zone_letter, "X")

\* The checks with the northing tested before the easting.
Validate_NorthingFirst(easting, northing, zone_num, zone_letter) ==
  IF NorthingOutOfRange(northing) THEN "NorthingOutOfRange"
  ELSE IF EastingOutOfRange(easting) THEN "EastingOutOfRange"
  ELSE IF ZoneNumOutOfRange(zone_num) THEN "ZoneNumOutOfRange"
  ELSE IF ZoneLetterOutOfRange(zone_letter) THEN "ZoneLetterOutOfRange"
  ELSE ""

\* The checks at the head of wsg84_utm_to_lat_lon: the error returned, or ""
\* when none returns.
Validate(easting, northing, zone_num, zone_letter) ==
  IF EastingOutOfRange(easting) THEN "EastingOutOfRange"
  ELSE IF NorthingOutOfRange(northing) THEN "NorthingOutOfRange"
  ELSE IF ZoneNumOutOfRange(zone_num) THEN "ZoneNumOutOfRange"
  ELSE IF ZoneLetterOutOfRange(zone_letter) THEN "ZoneLetterOutOfRange"
  ELSE ""

\* The hemisphere test with 'N' counted as southern.
Northern_Strict(zone_letter) == CharGt(zone_letter, "N")

\* let northern = zone_letter >= 'N'
Northern(zone_letter) == CharGe(zone_letter, "N")

\* let mut y = northing; if !northern { y -= 1e7; }
HemisphereY(northing, northern) ==
  IF ~northern THEN northing - 10000000 ELSE northing

\* The zone's western edge instead of its central meridian.
InverseMeridian_Edge(zone_num) == (zone_num - 1) * 6 - 180

\* (f64::from(zone_num) - 1.) * 6. - 180. + 3., in whole degrees
InverseMeridian(zone_num) == (zone_num - 1) * 6 - 180 + 3

wsg84_utm_to_lat_lon(easting, northing, zone_num, zone_letter) ==
  LET e == Validate(easting, northing, zone_num, zone_letter)
      northern == Northern(zone_letter)
  IN  IF e # "" THEN Err(e)
      ELSE Ok(easting - 500000, HemisphereY(northing, northern),
              northern, InverseMeridian(zone_num))

(* ----------------------------------------------------------------- state *)

VARIABLES
  pc,           \* the call made last; the variables it did not set hold 0 or ""
  latitude,     \* degrees, as given to the resolver or the forward projector
  longitude,
  zone_num,     \* u8
  zone_letter,  \* a char, "None", "panic", or "" before any is known
  easting,      \* metres
  northing,
  result        \* what wsg84_utm_to_lat_lon returned

vars ==
  << pc, latitude, longitude, zone_num, zone_letter, easting, northing, result >>

Init ==
  /\ pc = "start"
  /\ latitude = 0
  /\ longitude = 0
  /\ zone_num = 0
  /\ zone_letter = ""
  /\ easting = 0
  /\ northing = 0
  /\ result = NoResult

(* ---------------------------------------------------------------- inputs *)

Latitudes == Deg(-MaxLatDeg)..Deg(MaxLatDeg)

Longitudes ==
  (Deg(-MaxLonDeg)..Deg(MaxLonDeg)) \cup { Deg(FarLonDeg), Deg(-FarLonDeg) }

Eastings ==
  { 50, 99999, 100000, 313784, 500000, 999999, 1000000 }

Northings ==
  { -1, 0, 1, 5427057, 10000000, 10000001 }

ZoneNums == { 0, 1, 31, 60, 61, 255 }

\* The round trip is made from these latitudes (degrees; the last two are
\* half a degree off the equator) ...
TripLatitudes ==
  { Deg(d) : d \in { -85, -80, -72, -56, -34, -8, -1, 0, 1, 8, 40, 56, 60,
                     63, 64, 72, 78, 84, 85 } } \cup { -1, 1 }

\* ... and from every third degree of longitude, two in every zone.
TripLongitudes == { Deg(3 * k) : k \in -60..60 }

(* --------------------------------------------------------------- actions *)

\* lat_lon_to_zone_number(lat, lon)
CallLatLonToZoneNumber ==
  /\ pc = "start"
  /\ \E lat \in Latitudes, lon \in Longitudes :
        /\ latitude' = lat
        /\ longitude' = lon
        /\ zone_num' = lat_lon_to_zone_number(lat, lon)
  /\ pc' = "lat_lon_to_zone_number"
  /\ UNCHANGED << zone_letter, easting, northing, result >>

\* lat_to_zone_letter(lat)
CallLatToZoneLetter ==
  /\ pc = "start"
  /\ \E lat \in Latitudes :
        /\ latitude' = lat
        /\ zone_letter' = lat_to_zone_letter(lat)
  /\ pc' = "lat_to_zone_letter"
  /\ UNCHANGED << longitude, zone_num, easting, northing, result >>

\* wsg84_utm_to_lat_lon(e, n, z, l) on arguments of the caller's choice
CallWsg84UtmToLatLon ==
  /\ pc = "start"
  /\ \E e \in Eastings, n \in Northings, z \in ZoneNums, l \in Chars :
        /\ easting' = e
        /\ northing' = n
        /\ zone_num' = z
        /\ zone_letter' = l
        /\ result' = wsg84_utm_to_lat_lon(e, n, z, l)
  /\ pc' = "wsg84_utm_to_lat_lon"
  /\ UNCHANGED << latitude, longitude >>

\* wsg84_utm_to_lat_lon(e, n, z, lat_to_zone_letter(lat).unwrap())
CallWsg84UtmToLatLonWithLetter ==
  /\ pc = "lat_to_zone_letter"
  /\ zone_letter \in Chars
  /\ \E e \in Eastings, n \in Northings, z \in ZoneNums :
        /\ easting' = e
        /\ northing' = n
        /\ zone_num' = z
        /\ result' = wsg84_utm_to_lat_lon(e, n, z, zone_letter)
  /\ pc' = "wsg84_utm_to_lat_lon_with_letter"
  /\ UNCHANGED << latitude, longitude, zone_letter >>

\* zone = lat_lon_to_zone_number(lat, lon), the first call of a round trip
TripZoneNumber ==
  /\ pc = "start"
  /\ \E lat \in TripLatitudes, lon \in TripLongitudes :
        /\ latitude' = lat
        /\ longitude' = lon
        /\ zone_num' = lat_lon_to_zone_number(lat, lon)
  /\ pc' = "zone"
  /\ UNCHANGED << zone_letter, easting, northing, result >>

\* (northing, easting, _) = to_utm_wgs84(lat, lon, zone)
TripProject ==
  /\ pc = "zone"
  /\ LET utm == to_utm_wgs84(latitude, longitude, zone_num)
     IN  /\ northing' = utm.northing
         /\ easting' = utm.easting
  /\ pc' = "utm"
  /\ UNCHANGED << latitude, longitude, zone_num, zone_letter, result >>

\* lat_to_zone_letter(lat)
TripZoneLetter ==
  /\ pc = "utm"
  /\ zone_letter' = lat_to_zone_letter(latitude)
  /\ pc' = "letter"
  /\ UNCHANGED << latitude, longitude, zone_num, easting, northing, result >>

\* wsg84_utm_to_lat_lon(easting, northing, zone, letter) on what the three
\* calls before returned; a latitude without a letter ends the trip
TripUnproject ==
  /\ pc = "letter"
  /\ zone_letter \in Chars
  /\ result' = wsg84_utm_to_lat_lon(easting, northing, zone_num, zone_letter)
  /\ pc' = "done"
  /\ UNCHANGED << latitude, longitude, zone_num, zone_letter, easting, northing >>

\* (northing, easting, _) = to_utm_wgs84_no_zone(lat, lon)
CallToUtmWgs84NoZone ==
  /\ pc = "start"
  /\ \E lat \in TripLatitudes, lon \in TripLongitudes :
        LET utm == to_utm_wgs84_no_zone(lat, lon)
        IN  /\ latitude' = lat
            /\ longitude' = lon
            /\ northing' = utm.northing
            /\ easting' = utm.easting
  /\ pc' = "to_utm_wgs84_no_zone"
  /\ UNCHANGED << zone_num, zone_letter, result >>

Next ==
  \/ TripZoneNumber
  \/ TripProject
  \/ TripZoneLetter
  \/ TripUnproject
  \/ CallToUtmWgs84NoZone

Spec == Init /\ [][Next]_vars

NextResolver == CallLatLonToZoneNumber \/ CallLatToZoneLetter

SpecResolver == Init /\ [][NextResolver]_vars

NextInverse == CallWsg84UtmToLatLon

SpecInverse == Init /\ [][NextInverse]_vars

NextBand == CallLatToZoneLetter \/ CallWsg84UtmToLatLonWithLetter

SpecBand == Init /\ [][NextBand]_vars

(* ---------------------------------------------------------------- claims *)

InverseCalled == pc = "wsg84_utm_to_lat_lon"

EastingBad == easting < 100000 \/ easting >= 1000000

NorthingBad == northing < 0 \/ northing > 10000000

ZoneNumBad == zone_num < 1 \/ zone_num > 60

ZoneLetterBad == Ord(zone_letter) < Ord("C") \/ Ord(zone_letter) > Ord("X")

\* C1: the error of wsg84_utm_to_lat_lon is that of the first violated check
\* in the order easting, northing, zone number, zone letter:
\* EastingOutOfRange whenever the easting is out of range, whatever the other
\* three are; NorthingOutOfRange only if the easting is in range;
\* ZoneNumOutOfRange only if easting and northing are in range;
\* ZoneLetterOutOfRange only if the three others are in range.
C1_FirstViolatedCheck ==
  InverseCalled =>
    /\ (result.err = "EastingOutOfRange") <=> EastingBad
    /\ (result.err = "NorthingOutOfRange") <=> (~EastingBad /\ NorthingBad)
    /\ (result.err = "ZoneNumOutOfRange") <=>
          (~EastingBad /\ ~NorthingBad /\ ZoneNumBad)
    /\ (result.err = "ZoneLetterOutOfRange") <=>
          (~EastingBad /\ ~NorthingBad /\ ~ZoneNumBad /\ ZoneLetterBad)

\* All four arguments out of range at once, as in toLatLon(50, -1, 61, 'y').
C1_Witness ==
  /\ InverseCalled
  /\ easting = 50 /\ northing = -1 /\ zone_num = 61 /\ zone_letter = "y"
  /\ result.tag = "Err" /\ result.err = "EastingOutOfRange"

AllInRange ==
  /\ easting \in 100000..999999
  /\ northing \in 0..10000000
  /\ zone_num \in 1..60
  /\ Ord(zone_letter) \in Ord("C")..Ord("X")

\* C2: wsg84_utm_to_lat_lon returns Ok exactly when easting is in
\* [100000, 1000000), northing in [0, 10000000], zone number in [1, 60] and
\* zone letter in ['C', 'X'], and an error otherwise.
C2_OkIffInRange ==
  InverseCalled =>
    /\ result.tag \in {"Ok", "Err"}
    /\ (result.tag = "Ok") <=> AllInRange
    /\ (result.tag = "Err") <=> (result.err # "")

\* The accepted bounds: easting 100000, northing 10000000, zone 60, letter X.
C2_Witness ==
  /\ InverseCalled
  /\ easting = 100000 /\ northing = 10000000 /\ zone_num = 60
  /\ zone_letter = "X"
  /\ result.tag = "Ok"

\* C3: for every latitude and every longitude in [-180, 180], both ends
\* included, lat_lon_to_zone_number returns a zone number in 1..60.
C3_ZoneInRange ==
  (pc = "lat_lon_to_zone_number"
     /\ Deg(-180) <= longitude /\ longitude <= Deg(180))
    => zone_num \in 1..60

\* floor((lon + 180) / 6) + 1
C4_General(lon) == ((lon + Deg(180)) \div Deg(6)) + 1

C4_Reference(lat, lon) ==
  CASE Deg(56) <= lat /\ lat < Deg(64) /\ Deg(3) <= lon /\ lon < Deg(12) -> 32
    [] Deg(72) <= lat /\ lat <= Deg(84) /\ Deg(0) <= lon /\ lon < Deg(9) -> 31
    [] Deg(72) <= lat /\ lat <= Deg(84) /\ Deg(9) <= lon /\ lon < Deg(21) -> 33
    [] Deg(72) <= lat /\ lat <= Deg(84) /\ Deg(21) <= lon /\ lon < Deg(33) -> 35
    [] Deg(72) <= lat /\ lat <= Deg(84) /\ Deg(33) <= lon /\ lon < Deg(42) -> 37
    [] OTHER -> C4_General(lon)

\* C4: for every latitude and every longitude in [-180, 180),
\* lat_lon_to_zone_number is 32 for 56 <= lat < 64 and 3 <= lon < 12;
\* otherwise, for 72 <= lat <= 84 and lon >= 0, 31, 33, 35, 37 for lon below
\* 9, 21, 33, 42; in every other case floor((lon + 180) / 6) + 1.  Zones 32,
\* 34 and 36 are never returned for a latitude in [72, 84].
C4_ZoneReference ==
  (pc = "lat_lon_to_zone_number"
     /\ Deg(-180) <= longitude /\ longitude < Deg(180))
    => /\ zone_num = C4_Reference(latitude, longitude)
       /\ (Deg(72) <= latitude /\ latitude <= Deg(84))
            => zone_num \notin {32, 34, 36}

\* A Svalbard override and the general formula beside it, at 78 degrees north.
C4_Witness ==
  /\ pc = "lat_lon_to_zone_number"
  /\ latitude = Deg(78)
  /\ \/ longitude = Deg(21) /\ zone_num = 35
     \/ longitude = Deg(42) /\ zone_num = 38

C5_Table ==
  << "C", "D", "E", "F", "G", "H", "J", "K", "L", "M", "N",
     "P", "Q", "R", "S", "T", "U", "V", "W", "X", "X" >>

UtmLetters ==
  { "C", "D", "E", "F", "G", "H", "J", "K", "L", "M",
    "N", "P", "Q", "R", "S", "T", "U", "V", "W", "X" }

\* C5: lat_to_zone_letter returns None exactly when the latitude is outside
\* [-80, 84]; inside, it returns without panicking the letter at index
\* floor((lat + 80) / 8) of "CDEFGHJKLMNPQRSTUVWXX", so every latitude in
\* [72, 84] yields 'X', and the letter is one of the 20 letters C..X without
\* I and O.
C5_ZoneLetter ==
  pc = "lat_to_zone_letter" =>
    /\ zone_letter # "panic"
    /\ (zone_letter = "None") <=> (latitude < Deg(-80) \/ latitude > Deg(84))
    /\ (Deg(-80) <= latitude /\ latitude <= Deg(84)) =>
          /\ zone_letter = C5_Table[((latitude + Deg(80)) \div Deg(8)) + 1]
          /\ zone_letter \in UtmLetters
    /\ (Deg(72) <= latitude /\ latitude <= Deg(84)) => zone_letter = "X"

\* The top of the topmost band: 84 degrees north is in band X.
C5_Witness ==
  pc = "lat_to_zone_letter" /\ latitude = Deg(84) /\ zone_letter = "X"

\* The round trip of a northern latitude returns Ok.
NorthernTripOk ==
  (pc = "done" /\ latitude >= 0
     /\ Deg(-180) <= longitude /\ longitude < Deg(180))
    => result.tag = "Ok"

\* C7: for every (lat, lon) with lat in [-80, 84], in either hemisphere, and
\* zone = lat_lon_to_zone_number(lat, lon), the northing and easting of
\* to_utm_wgs84(lat, lon, zone) pass the range validation of
\* wsg84_utm_to_lat_lon, which returns Ok (with a latitude and longitude
\* within 1e-4 degrees of the ones given).  Stated for the longitudes of
\* [-180, 180).
C7_RoundTripOk ==
  (pc = "done"
     /\ Deg(-80) <= latitude /\ latitude <= Deg(84)
     /\ Deg(-180) <= longitude /\ longitude < Deg(180))
    => result.tag = "Ok"

\* C8: for every zone number z in 1..60 the forward origin z*6 - 183 equals
\* the (z - 1)*6 - 180 + 3 the inverse adds to its longitude; the value lies
\* in [-177, 177] and is the midpoint of the zone
\* [(z - 1)*6 - 180, z*6 - 180].
C8_SameCentralMeridian ==
  (pc = "done" /\ result.tag = "Ok") =>
    /\ zone_num \in 1..60
    /\ LongOrigin(zone_num) = result.meridian
    /\ result.meridian \in -177..177
    /\ 2 * result.meridian = ((zone_num - 1) * 6 - 180) + (zone_num * 6 - 180)

\* A round trip through the last zone.
C8_Witness ==
  /\ pc = "done" /\ result.tag = "Ok"
  /\ zone_num = 60 /\ result.meridian = 177

BandInverseCalled == pc = "wsg84_utm_to_lat_lon_with_letter"

\* C9: for every latitude in [-80, 84], the letter of lat_to_zone_letter
\* selects the matching hemisphere in wsg84_utm_to_lat_lon: it is >= 'N'
\* (northing used as given) exactly when the latitude is >= 0, and < 'N'
\* (10,000,000 subtracted, the value used in [-10000000, 0]) exactly when
\* the latitude is < 0.
C9_HemisphereMatches ==
  (BandInverseCalled /\ result.tag = "Ok") =>
    /\ Deg(-80) <= latitude /\ latitude <= Deg(84)
    /\ (Ord(zone_letter) >= Ord("N")) <=> (latitude >= 0)
    /\ result.northern <=> (latitude >= 0)
    /\ (latitude >= 0) => result.y = northing
    /\ (latitude < 0) =>
          /\ result.y = northing - 10000000
          /\ result.y \in -10000000..0

\* Both hemispheres next to the equator.
C9_Witness ==
  /\ BandInverseCalled /\ result.tag = "Ok"
  /\ \/ latitude = -1 /\ zone_letter = "M" /\ result.y < 0
     \/ latitude = 0 /\ zone_letter = "N" /\ result.y = northing

\* C10: wsg84_utm_to_lat_lon returns Ok only for a zone letter of the 20
\* letter UTM set; every other character, 'I', 'O' and the lowercase letters
\* included, is rejected with ZoneLetterOutOfRange when the other three
\* arguments are in range.
C10_OnlyUtmLetters ==
  InverseCalled =>
    /\ (result.tag = "Ok") => zone_letter \in UtmLetters
    /\ (~EastingBad /\ ~NorthingBad /\ ~ZoneNumBad
          /\ zone_letter \notin UtmLetters)
         => (result.tag = "Err" /\ result.err = "ZoneLetterOutOfRange")

====
